---- MODULE Spec2Model ----
(***************************************************************************)
(* Model of littleline (src/src/littleline.c): the singleton editor        *)
(* context `cl`, the read loop ll_read / handle_character, the renderer    *)
(* bookkeeping of reprint_line and the public command set.                 *)
(*                                                                         *)
(* Bytes are integers 0..255.  A C string is a sequence of bytes followed  *)
(* by an implicit terminating 0; offsets are 0-based as in the C code.     *)
(* buffer.h, history.h and the key-sequence FSM are not part of            *)
(* littleline.c; their operations are modelled from their documented       *)
(* contract.                                                               *)
(***************************************************************************)
EXTENDS Integers, Sequences, FiniteSets, TLC

VARIABLES
    cl,      \* struct ll_context (plus the bytes a stray `current` reads)
    pc,      \* "host" | "reading" | "exited" | "undefined"
    obs,     \* the last step: the command run, BEL, newline, raw mode
    result,  \* what the last ll_read returned to the host
    nkeys    \* key sequences consumed so far (bounds the exploration)

vars == <<cl, pc, obs, result, nkeys>>

----------------------------------------------------------------------------
(* Bounds of the exploration *)

\* key sequences handled in one behaviour
MaxKeys == 4
\* longest edit buffer the typing actions may build
MaxLen == 4
\* max_lines handed to ll_set_history / ll_set_history_with_file
MaxLines == 2

----------------------------------------------------------------------------
(* Bytes and C strings *)

\* (c & 0xC0) == 0x80
IsCont(c) == c >= 128 /\ c <= 191

\* isalnum() in the "C" locale (the library never calls setlocale)
IsAlnum(c) == \/ (c >= 48 /\ c <= 57)
              \/ (c >= 65 /\ c <= 90)
              \/ (c >= 97 /\ c <= 122)

\* Number of bytes the lead byte c announces in ll_delete_char; 0 when no
\* branch of the if/else chain matches (continuation byte, 0xFC..0xFF).
SeqLen(c) == IF c < 128 THEN 1
             ELSE IF c >= 192 /\ c <= 223 THEN 2
             ELSE IF c >= 224 /\ c <= 239 THEN 3
             ELSE IF c >= 240 /\ c <= 247 THEN 4
             ELSE IF c >= 248 /\ c <= 251 THEN 5
             ELSE 0

Min(a, b) == IF a < b THEN a ELSE b

\* m[i] of a C array holding the bytes m and its terminator (0-based)
At(m, i) == IF i >= 0 /\ i < Len(m) THEN m[i + 1] ELSE 0

\* strlen(m): offset of the first 0 byte
RECURSIVE StrlenFrom(_, _)
StrlenFrom(m, i) == IF At(m, i) = 0 THEN i ELSE StrlenFrom(m, i + 1)

strlen(m) == StrlenFrom(m, 0)

\* the C string that starts at m: the bytes before the first 0
CStr(m) == SubSeq(m, 1, strlen(m))

\* m[from .. from+n-1], 0-based
Slice(m, from, n) == SubSeq(m, from + 1, from + n)

----------------------------------------------------------------------------
(* buffer.h: struct ll_buf { str, len } as the sequence of its len bytes *)

ll_buf_assign(b, str) == str

ll_buf_insert(b, index, str) ==
    Slice(b, 0, index) \o str \o Slice(b, index, Len(b) - index)

ll_buf_insert_char(b, index, c) == ll_buf_insert(b, index, <<c>>)

\* a count that reaches past the end removes the bytes up to the end
ll_buf_erase(b, index, n) ==
    LET k == Min(n, Len(b) - index)
    IN  Slice(b, 0, index) \o Slice(b, index + k, Len(b) - index - k)

ll_buf_append(b, str) == b \o str

ll_buf_prepend(b, str) == str \o b

----------------------------------------------------------------------------
(* history.h: struct ll_history as the sequence of its lines, oldest first *)

ll_history_push(h, max, line) ==
    IF Len(h) > 0 /\ h[Len(h)] = line THEN h
    ELSE IF Len(h) + 1 > max THEN Tail(h \o <<line>>)
    ELSE h \o <<line>>

ll_history_index(h, i) == h[i + 1]

----------------------------------------------------------------------------
(* struct ll_context *)

\* the values of the pointer cl.current
AtBuffer == [at |-> "buffer", idx |-> 0]
AtHistory(i) == [at |-> "history", idx |-> i]
\* what ll_history_index hands out for an index that is not below size
AtStray == [at |-> "stray", idx |-> 0]

\* STDOUT_FILENO behind the prompt: the cells of the editable region, one
\* codepoint or escape character each, the column the terminal will write
\* to next, whether a backspace was sent at column 0, and the number of
\* bytes the last reprint_line wrote
NoLine == [cells |-> <<>>, col |-> 0, under |-> FALSE, out |-> 0]

\* the static, zero-initialised context after ll_set_history*(MaxLines)
cl0(h) == [initialized |-> FALSE,
           last_command |-> "NULL",
           history |-> h,
           focus |-> 0,
           cursor |-> 0,
           fmt_cursor |-> 0,
           fmt_len |-> 0,
           current |-> AtBuffer,
           buffer |-> <<>>,
           clipboard |-> <<>>,
           stray |-> <<>>,
           tty |-> NoLine]

\* the memory cl.current points at (without its terminator)
Mem(s) == IF s.current.at = "buffer" THEN s.buffer
          ELSE IF s.current.at = "history"
               THEN ll_history_index(s.history, s.current.idx)
          ELSE s.stray

\* cl.current[i]
Cur(s, i) == At(Mem(s), i)

\* what a command hands back: the context, its return value and whether
\* the process went on ("none"), exited, or left defined behaviour
Ret(s, r) == [cl |-> s, ret |-> r, halt |-> "none"]
Halt(s, how) == [cl |-> s, ret |-> 0, halt |-> how]

----------------------------------------------------------------------------
(* reprint_line: fmt_cursor, fmt_len and the bytes written to the terminal *)

\* the two characters that follow "\\x" for the byte c: '0' + (*it >> 4)
\* and '0' + (*it & 0xF), *it being a char (signed, as on x86: c >= 0x80
\* reads as c - 256 and >> keeps the sign)
HexHi(c) == 48 + ((IF c >= 128 THEN c - 256 ELSE c) \div 16)
HexLo(c) == 48 + (c % 16)

\* n times the same write
Times(n, w) == [i \in 1..n |-> w]

\* the number of bytes of a sequence of writes
RECURSIVE NBytes(_)
NBytes(ws) == IF ws = <<>> THEN 0 ELSE Len(Head(ws)) + NBytes(Tail(ws))

\* the terminal after n times "\b": each moves one column left
TtyBack(t, n) ==
    [t EXCEPT !.col = t.col - n, !.under = t.under \/ t.col - n < 0]

\* the terminal after the codepoints ws: each is put in the cell of the
\* column and moves one column right (left of column 0 there is no cell of
\* the editable region)
TtyType(t, ws) ==
    [t EXCEPT !.col = t.col + Len(ws),
              !.cells = IF t.col < 0 THEN t.cells
                        ELSE SubSeq(t.cells, 1, t.col) \o ws
                             \o SubSeq(t.cells, t.col + Len(ws) + 1,
                                       Len(t.cells))]

\* one pass of the scanning loop from offset it; fc is -1 until the scan
\* stands on the cursor offset; ws are the codepoints written so far
RECURSIVE Scan(_, _, _, _, _, _, _)
Scan(m, end, cursor, it, flen, fc, ws) ==
    LET c == At(m, it)
        fc1 == IF it = cursor THEN flen ELSE fc
        n == SeqLen(c)
    IN  IF c = 0 THEN [fmt_len |-> flen, fmt_cursor |-> fc, ws |-> ws]
        ELSE IF c < 32
        THEN Scan(m, end, cursor, it + 1, flen + 2, fc1,
                  ws \o << <<94>>, <<c + 64>> >>)
        ELSE IF c < 128
        THEN Scan(m, end, cursor, it + 1, flen + 1, fc1, Append(ws, <<c>>))
        ELSE IF n >= 2
             THEN IF end - it < n
                  THEN [fmt_len |-> flen, fmt_cursor |-> fc1, ws |-> ws]
                  ELSE Scan(m, end, cursor, it + n, flen + 1, fc1,
                            Append(ws, Slice(m, it, n)))
        ELSE Scan(m, end, cursor, it + 1, flen + 4, fc1,
                  ws \o << <<92>>, <<120>>, <<HexHi(c)>>, <<HexLo(c)>> >>)

\* reprint_line without `if (cl.fmt_cursor < 0) cl.fmt_cursor = cl.fmt_len`
Reprinted_unreached(s, r, home, blanks, back) ==
    [s EXCEPT !.fmt_len = r.fmt_len,
              !.fmt_cursor = r.fmt_cursor,
              !.tty = [TtyBack(TtyType(TtyType(TtyBack(s.tty, home), r.ws),
                                       Times(blanks, <<32>>)), back)
                         EXCEPT !.out = home + NBytes(r.ws) + blanks + back]]

\* the context after reprint_line has scanned r: `home` backspaces to
\* column 0, the line, `blanks` spaces over what the line no longer
\* covers, `back` backspaces to the cursor
Reprinted(s, r, home, blanks, back) ==
    [s EXCEPT !.fmt_len = r.fmt_len,
              !.fmt_cursor = IF r.fmt_cursor < 0 THEN r.fmt_len
                             ELSE r.fmt_cursor,
              !.tty = [TtyBack(TtyType(TtyType(TtyBack(s.tty, home), r.ws),
                                       Times(blanks, <<32>>)), back)
                         EXCEPT !.out = home + NBytes(r.ws) + blanks + back]]

\* reprint_line without the backspaces that take the terminal to column 0
reprint_line_no_home(s) ==
    LET r == Scan(Mem(s), strlen(Mem(s)), s.cursor, 0, 0, -1, <<>>)
        fcur == IF r.fmt_cursor < 0 THEN r.fmt_len ELSE r.fmt_cursor
        top == IF r.fmt_len < s.fmt_len THEN s.fmt_len ELSE r.fmt_len
    IN  Reprinted(s, r, 0, top - r.fmt_len, top - fcur)

\* reprint_line that goes back to the cursor from the end of the new line,
\* also when it wrote blanks behind it
reprint_line_short_return(s) ==
    LET r == Scan(Mem(s), strlen(Mem(s)), s.cursor, 0, 0, -1, <<>>)
        fcur == IF r.fmt_cursor < 0 THEN r.fmt_len ELSE r.fmt_cursor
        top == IF r.fmt_len < s.fmt_len THEN s.fmt_len ELSE r.fmt_len
    IN  Reprinted(s, r, s.fmt_cursor, top - r.fmt_len, r.fmt_len - fcur)

reprint_line(s) ==
    LET r == Scan(Mem(s), strlen(Mem(s)), s.cursor, 0, 0, -1, <<>>)
        fcur == IF r.fmt_cursor < 0 THEN r.fmt_len ELSE r.fmt_cursor
        top == IF r.fmt_len < s.fmt_len THEN s.fmt_len ELSE r.fmt_len
    IN  Reprinted(s, r, s.fmt_cursor, top - r.fmt_len, top - fcur)

----------------------------------------------------------------------------
(* pop_line, push_line, insert_str, insert_char *)

\* pop_line without `cl.focus = cl.history.size`
pop_line_keeps_focus(s) ==
    IF s.current # AtBuffer
    THEN [s EXCEPT !.buffer = ll_buf_assign(s.buffer, CStr(Mem(s))),
                   !.current = AtBuffer]
    ELSE s

pop_line(s) ==
    IF s.current # AtBuffer
    THEN [s EXCEPT !.buffer = ll_buf_assign(s.buffer, CStr(Mem(s))),
                   !.current = AtBuffer,
                   !.focus = Len(s.history)]
    ELSE s

push_line(s) ==
    [s EXCEPT !.history = ll_history_push(s.history, MaxLines, CStr(Mem(s)))]

\* insert_str that advances the cursor by one, as insert_char does
insert_str_one_step(s, str) ==
    LET p == pop_line(s)
    IN  [p EXCEPT !.buffer = ll_buf_insert(p.buffer, p.cursor, str),
                  !.current = AtBuffer,
                  !.cursor = p.cursor + 1]

insert_str(s, str) ==
    LET p == pop_line(s)
    IN  [p EXCEPT !.buffer = ll_buf_insert(p.buffer, p.cursor, str),
                  !.current = AtBuffer,
                  !.cursor = p.cursor + Len(str)]

insert_char(s, c) ==
    LET p == pop_line(s)
    IN  [p EXCEPT !.buffer = ll_buf_insert_char(p.buffer, p.cursor, c),
                  !.current = AtBuffer,
                  !.cursor = p.cursor + 1]

----------------------------------------------------------------------------
(* Cursor motion *)

\* do --cursor while (current[cursor] & 0xC0) == 0x80, from offset i;
\* a run of continuation bytes that reaches the start of the line takes
\* the loop to offset -1
RECURSIVE BackOver(_, _)
BackOver(m, i) == IF i >= 0 /\ IsCont(At(m, i)) THEN BackOver(m, i - 1) ELSE i

ll_backward_char(s) ==
    IF s.cursor = 0 THEN Ret(s, -1)
    ELSE LET c == BackOver(Mem(s), s.cursor - 1)
         IN  IF c < 0
             THEN Halt([s EXCEPT !.cursor = c], "undefined")
             ELSE Ret([s EXCEPT !.cursor = c], 0)

\* do ++cursor while (current[cursor] & 0xC0) == 0x80, from offset i
RECURSIVE FwdOver(_, _)
FwdOver(m, i) == IF IsCont(At(m, i)) THEN FwdOver(m, i + 1) ELSE i

ll_forward_char(s) ==
    IF Cur(s, s.cursor) = 0 THEN Ret(s, -1)
    ELSE Ret([s EXCEPT !.cursor = FwdOver(Mem(s), s.cursor + 1)], 0)

\* while (cursor >= 0 && isalnum(current[cursor]) == want) --cursor
RECURSIVE BackWhile(_, _, _)
BackWhile(m, i, want) ==
    IF i >= 0 /\ IsAlnum(At(m, i)) = want THEN BackWhile(m, i - 1, want) ELSE i

ll_backward_word(s) ==
    IF s.cursor = 0 THEN Ret(s, -1)
    ELSE LET m == Mem(s)
             a == BackWhile(m, s.cursor - 1, FALSE)
             b == BackWhile(m, a, TRUE)
         IN  Ret([s EXCEPT !.cursor = b + 1], 0)

\* while (current[cursor] != 0 && isalnum(current[cursor]) == want) ++cursor
RECURSIVE FwdWhile(_, _, _)
FwdWhile(m, i, want) ==
    IF At(m, i) # 0 /\ IsAlnum(At(m, i)) = want
    THEN FwdWhile(m, i + 1, want) ELSE i

\* `past` is whether the byte behind the terminator of the line reads as 0;
\* it is consulted only when current[cursor + 1] lies behind the terminator
ll_forward_word(s, past) ==
    LET m == Mem(s)
        next0 == IF s.cursor + 1 > Len(m) THEN past
                 ELSE At(m, s.cursor + 1) = 0
    IN  IF next0 THEN Ret(s, -1)
        ELSE LET a == FwdWhile(m, s.cursor, FALSE)
                 b == FwdWhile(m, a, TRUE)
                 c == FwdWhile(m, b, FALSE)
             IN  Ret([s EXCEPT !.cursor = c], 0)

ll_beginning_of_line(s) == Ret([s EXCEPT !.cursor = 0], 0)

ll_end_of_line(s) == Ret([s EXCEPT !.cursor = strlen(Mem(s))], 0)

----------------------------------------------------------------------------
(* History navigation *)

\* ll_previous_history that copies the entry it shows into the buffer
ll_previous_history_copies(s) ==
    IF s.focus = 0 THEN Ret(s, -1)
    ELSE LET t == [s EXCEPT !.focus = s.focus - 1,
                            !.current = AtHistory(s.focus - 1)]
         IN  Ret([t EXCEPT !.cursor = strlen(Mem(t)),
                           !.buffer = CStr(Mem(t))], 0)

ll_previous_history(s) ==
    IF s.focus = 0 THEN Ret(s, -1)
    ELSE LET t == [s EXCEPT !.focus = s.focus - 1,
                            !.current = AtHistory(s.focus - 1)]
         IN  Ret([t EXCEPT !.cursor = strlen(Mem(t))], 0)

ll_next_history(s) ==
    IF s.focus = Len(s.history) THEN Ret(s, -1)
    ELSE LET f == s.focus + 1
             t == [s EXCEPT !.focus = f,
                            !.current = IF f = Len(s.history) THEN AtBuffer
                                        ELSE AtHistory(f)]
         IN  Ret([t EXCEPT !.cursor = strlen(Mem(t))], 0)

\* `stray` is what an out-of-range ll_history_index(&history, 0) leads to:
\* either strlen() of it faults, or it finds the bytes stray.bytes there
ll_beginning_of_history(s, stray) ==
    IF Len(s.history) = 0
    THEN IF stray.fault
         THEN Halt([s EXCEPT !.focus = 0, !.current = AtStray], "undefined")
         ELSE LET t == [s EXCEPT !.focus = 0, !.current = AtStray,
                                 !.stray = stray.bytes]
              IN  Ret([t EXCEPT !.cursor = strlen(Mem(t))], 0)
    ELSE LET t == [s EXCEPT !.focus = 0, !.current = AtHistory(0)]
         IN  Ret([t EXCEPT !.cursor = strlen(Mem(t))], 0)

ll_end_of_history(s) ==
    LET t == [s EXCEPT !.focus = Len(s.history), !.current = AtBuffer]
    IN  Ret([t EXCEPT !.cursor = strlen(Mem(t))], 0)

----------------------------------------------------------------------------
(* Editing commands *)

ll_terminate(s) == Halt(s, "exit")

ll_delete_char(s) ==
    IF Cur(s, s.cursor) = 0 THEN Ret(s, -1)
    ELSE LET p == pop_line(s)
             n == SeqLen(Cur(p, p.cursor))
         IN  Ret([p EXCEPT !.buffer = IF n > 0
                                        THEN ll_buf_erase(p.buffer, p.cursor, n)
                                        ELSE p.buffer,
                           !.current = AtBuffer], 0)

\* ll_end_of_file that looks at the edit buffer instead of cl.current
ll_end_of_file_on_buffer(s) ==
    IF Len(s.buffer) = 0 THEN ll_terminate(s) ELSE ll_delete_char(s)

ll_end_of_file(s) ==
    IF strlen(Mem(s)) = 0 THEN ll_terminate(s) ELSE ll_delete_char(s)

ll_backward_delete_char(s) ==
    LET b == ll_backward_char(s)
    IN  IF b.halt # "none" THEN b
        ELSE IF b.ret # 0 THEN Ret(b.cl, -1)
        ELSE LET d == ll_delete_char(b.cl)
             IN  IF d.ret # 0 THEN Ret(d.cl, -1) ELSE Ret(d.cl, 0)

\* ll_forward_kill_line that calls pop_line before it tests for the end
\* of the line
ll_forward_kill_line_pops_first(s) ==
    LET p == pop_line(s)
        len == Len(p.buffer) - p.cursor
        cut == Slice(p.buffer, p.cursor, len)
    IN  IF Cur(p, p.cursor) = 0 THEN Ret(p, 0)
        ELSE Ret([p EXCEPT
                    !.clipboard = IF p.last_command = "ll_forward_kill_word"
                                  THEN ll_buf_append(p.clipboard, cut)
                                  ELSE ll_buf_assign(p.clipboard, cut),
                    !.buffer = ll_buf_erase(p.buffer, p.cursor, len),
                    !.current = AtBuffer], 0)

ll_forward_kill_line(s) ==
    IF Cur(s, s.cursor) = 0 THEN Ret(s, 0)
    ELSE LET p == pop_line(s)
             len == Len(p.buffer) - p.cursor
             cut == Slice(p.buffer, p.cursor, len)
         IN  Ret([p EXCEPT
                    !.clipboard = IF p.last_command = "ll_forward_kill_word"
                                  THEN ll_buf_append(p.clipboard, cut)
                                  ELSE ll_buf_assign(p.clipboard, cut),
                    !.buffer = ll_buf_erase(p.buffer, p.cursor, len),
                    !.current = AtBuffer], 0)

\* ll_backward_kill_line that never looks at last_command
ll_backward_kill_line_replaces(s) ==
    IF s.cursor = 0 THEN Ret(s, 0)
    ELSE LET p == pop_line(s)
             cut == Slice(p.buffer, 0, p.cursor)
         IN  Ret([p EXCEPT
                    !.clipboard = ll_buf_assign(p.clipboard, cut),
                    !.buffer = ll_buf_erase(p.buffer, 0, p.cursor),
                    !.current = AtBuffer,
                    !.cursor = 0], 0)

ll_backward_kill_line(s) ==
    IF s.cursor = 0 THEN Ret(s, 0)
    ELSE LET p == pop_line(s)
             cut == Slice(p.buffer, 0, p.cursor)
         IN  Ret([p EXCEPT
                    !.clipboard = IF p.last_command = "ll_backward_kill_word"
                                  THEN ll_buf_prepend(p.clipboard, cut)
                                  ELSE ll_buf_assign(p.clipboard, cut),
                    !.buffer = ll_buf_erase(p.buffer, 0, p.cursor),
                    !.current = AtBuffer,
                    !.cursor = 0], 0)

ll_forward_kill_word(s) ==
    IF Cur(s, s.cursor) = 0 THEN Ret(s, 0)
    ELSE LET p == pop_line(s)
             begin == p.cursor
             w == ll_forward_word(p, TRUE).cl
             len == w.cursor - begin
             cut == Slice(w.buffer, begin, len)
         IN  Ret([w EXCEPT
                    !.clipboard = IF w.last_command = "ll_forward_kill_word"
                                  THEN ll_buf_append(w.clipboard, cut)
                                  ELSE ll_buf_assign(w.clipboard, cut),
                    !.buffer = ll_buf_erase(w.buffer, begin, len),
                    !.current = AtBuffer,
                    !.cursor = begin], 0)

\* ll_backward_kill_word that never looks at last_command
ll_backward_kill_word_replaces(s) ==
    IF s.cursor = 0 THEN Ret(s, 0)
    ELSE LET p == pop_line(s)
             end == p.cursor
             w == ll_backward_word(p).cl
             len == end - w.cursor
             cut == Slice(w.buffer, w.cursor, len)
         IN  Ret([w EXCEPT
                    !.clipboard = ll_buf_assign(w.clipboard, cut),
                    !.buffer = ll_buf_erase(w.buffer, w.cursor, len),
                    !.current = AtBuffer], 0)

ll_backward_kill_word(s) ==
    IF s.cursor = 0 THEN Ret(s, 0)
    ELSE LET p == pop_line(s)
             end == p.cursor
             w == ll_backward_word(p).cl
             len == end - w.cursor
             cut == Slice(w.buffer, w.cursor, len)
         IN  Ret([w EXCEPT
                    !.clipboard = IF w.last_command = "ll_backward_kill_word"
                                  THEN ll_buf_prepend(w.clipboard, cut)
                                  ELSE ll_buf_assign(w.clipboard, cut),
                    !.buffer = ll_buf_erase(w.buffer, w.cursor, len),
                    !.current = AtBuffer], 0)

ll_yank(s) ==
    IF Len(s.clipboard) # 0 THEN Ret(insert_str(s, s.clipboard), 0)
    ELSE Ret(s, 0)

\* c is the byte keyboard_get() delivers after the redraw
ll_verbatim(s, c) == Ret(insert_char(reprint_line(s), c), 0)

\* ll_accept_line without its pop_line
ll_accept_line_no_pop(s) == Ret(push_line(s), 1)

ll_accept_line(s) == Ret(push_line(pop_line(s)), 1)

----------------------------------------------------------------------------
(* Key bindings and the key-sequence FSM *)

LL_ANSI_KEY_BINDINGS ==
    << [seq |-> <<1>>, func |-> "ll_beginning_of_line"],
       [seq |-> <<2>>, func |-> "ll_backward_char"],
       [seq |-> <<3>>, func |-> "ll_terminate"],
       [seq |-> <<4>>, func |-> "ll_end_of_file"],
       [seq |-> <<5>>, func |-> "ll_end_of_line"],
       [seq |-> <<6>>, func |-> "ll_forward_char"],
       [seq |-> <<8>>, func |-> "ll_backward_delete_char"],
       [seq |-> <<10>>, func |-> "ll_accept_line"],
       [seq |-> <<11>>, func |-> "ll_forward_kill_line"],
       [seq |-> <<14>>, func |-> "ll_next_history"],
       [seq |-> <<16>>, func |-> "ll_previous_history"],
       [seq |-> <<21>>, func |-> "ll_backward_kill_line"],
       [seq |-> <<22>>, func |-> "ll_verbatim"],
       [seq |-> <<23>>, func |-> "ll_backward_kill_word"],
       [seq |-> <<25>>, func |-> "ll_yank"],
       [seq |-> <<27, 98>>, func |-> "ll_backward_word"],
       [seq |-> <<27, 102>>, func |-> "ll_forward_word"],
       [seq |-> <<27, 91, 65>>, func |-> "ll_previous_history"],
       [seq |-> <<27, 91, 66>>, func |-> "ll_next_history"],
       [seq |-> <<27, 91, 67>>, func |-> "ll_forward_char"],
       [seq |-> <<27, 91, 68>>, func |-> "ll_backward_char"],
       [seq |-> <<27, 91, 51, 126>>, func |-> "ll_delete_char"],
       [seq |-> <<27, 91, 55, 126>>, func |-> "ll_beginning_of_line"],
       [seq |-> <<27, 91, 56, 126>>, func |-> "ll_end_of_line"],
       [seq |-> <<127>>, func |-> "ll_backward_delete_char"] >>

\* char buf[8] of handle_character
BufSize == 8

\* the table the host hands to ll_set_key_bindings: the default table,
\* bindings for the commands the default table leaves unbound, and a key
\* of the host's terminal that sends nine bytes (ESC [ 1 0 0 ; 1 0 ~)
HostBindings ==
    LL_ANSI_KEY_BINDINGS \o
    << [seq |-> <<27, 100>>, func |-> "ll_forward_kill_word"],
       [seq |-> <<27, 60>>, func |-> "ll_beginning_of_history"],
       [seq |-> <<27, 62>>, func |-> "ll_end_of_history"],
       [seq |-> <<27, 91, 49, 48, 48, 59, 49, 48, 126>>,
        func |-> "ll_end_of_history"] >>

IsPrefix(a, b) == Len(a) <= Len(b) /\ SubSeq(b, 1, Len(a)) = a

\* ll_fsm_feed from the node reached by the bytes `node`: the answer and the
\* command of a final state (the last binding of the sequence wins)
ll_fsm_feed(node, c) ==
    LET path == Append(node, c)
        hits == {i \in DOMAIN HostBindings : HostBindings[i].seq = path}
        more == {i \in DOMAIN HostBindings : IsPrefix(path, HostBindings[i].seq)}
    IN  IF hits # {}
        THEN [retval |-> "FINAL",
              func |-> HostBindings[CHOOSE i \in hits :
                                        \A j \in hits : j <= i].func]
        ELSE IF more # {}
        THEN [retval |-> "INNER", func |-> "NULL"]
        ELSE [retval |-> "NONE", func |-> "NULL"]

\* the do/while of handle_character over the bytes keyboard_get delivers:
\* the answer that ends the loop and the number of bytes stored in buf
RECURSIVE FeedLoop(_, _)
FeedLoop(keys, len) ==
    LET r == ll_fsm_feed(SubSeq(keys, 1, len), keys[len + 1])
    IN  IF r.retval = "INNER" /\ len + 1 < Len(keys)
        THEN FeedLoop(keys, len + 1)
        ELSE [retval |-> r.retval, func |-> r.func, len |-> len + 1]

----------------------------------------------------------------------------
(* Inputs *)

\* bytes typed without a binding: NUL, space, 'a', a continuation byte and
\* a two-byte lead
TypedBytes == {0, 32, 97, 169, 195}

\* bytes typed after verbatim: a control byte and a malformed lead
VerbatimBytes == {1, 255}

\* the byte streams one handle_character call consumes
KeySeqs ==
    {HostBindings[i].seq : i \in DOMAIN HostBindings}
    \cup {<<c>> : c \in TypedBytes}
    \cup {<<27, 91, 81>>}
    \cup {<<27, 91, 49, 48, 48, 59, 49, 48, 81>>}

Dispatch == [k \in KeySeqs |-> FeedLoop(k, 0)]

\* streams that handle_character consumes entirely, that fit into buf and
\* that run command f ("NULL": the literal fallback)
KeysOf(f) == {k \in KeySeqs : /\ Dispatch[k].len = Len(k)
                              /\ Len(k) <= BufSize
                              /\ Dispatch[k].retval # "INNER"
                              /\ Dispatch[k].func = f}

\* what an index past the end of the history may lead ll_history_index to
StrayOutcomes == { [fault |-> TRUE, bytes |-> <<>>],
                   [fault |-> FALSE, bytes |-> <<>>],
                   [fault |-> FALSE, bytes |-> <<97>>] }

\* histories ll_set_history (empty) or ll_set_history_with_file leave
InitHistories == { <<>>,
                   << <<97, 32, 97, 32>> >>,
                   << <<226, 130, 172>>, <<32, 97, 32, 97>> >> }

NoChoice == [past |-> TRUE, stray |-> [fault |-> FALSE, bytes |-> <<>>], vb |-> 0]

----------------------------------------------------------------------------
(* handle_character *)

\* func(): nd carries the choices the command leaves to the environment
Call(func, s, nd) ==
    CASE func = "ll_beginning_of_line" -> ll_beginning_of_line(s)
      [] func = "ll_backward_char" -> ll_backward_char(s)
      [] func = "ll_terminate" -> ll_terminate(s)
      [] func = "ll_end_of_file" -> ll_end_of_file(s)
      [] func = "ll_end_of_line" -> ll_end_of_line(s)
      [] func = "ll_forward_char" -> ll_forward_char(s)
      [] func = "ll_backward_delete_char" -> ll_backward_delete_char(s)
      [] func = "ll_accept_line" -> ll_accept_line(s)
      [] func = "ll_forward_kill_line" -> ll_forward_kill_line(s)
      [] func = "ll_next_history" -> ll_next_history(s)
      [] func = "ll_previous_history" -> ll_previous_history(s)
      [] func = "ll_backward_kill_line" -> ll_backward_kill_line(s)
      [] func = "ll_verbatim" -> ll_verbatim(s, nd.vb)
      [] func = "ll_backward_kill_word" -> ll_backward_kill_word(s)
      [] func = "ll_yank" -> ll_yank(s)
      [] func = "ll_backward_word" -> ll_backward_word(s)
      [] func = "ll_forward_word" -> ll_forward_word(s, nd.past)
      [] func = "ll_delete_char" -> ll_delete_char(s)
      [] func = "ll_forward_kill_word" -> ll_forward_kill_word(s)
      [] func = "ll_beginning_of_history" -> ll_beginning_of_history(s, nd.stray)
      [] func = "ll_end_of_history" -> ll_end_of_history(s)

\* the part of handle_character after func() has handed back r; stored is
\* the number of bytes the loop has put into buf
AfterCommand(func, r, stored) ==
    IF r.halt # "none"
    THEN [cl |-> r.cl, ret |-> 0, halt |-> r.halt, bel |-> FALSE,
          func |-> func, stored |-> stored]
    ELSE IF r.ret < 0
    THEN [cl |-> [r.cl EXCEPT !.last_command = func],
          ret |-> 0, halt |-> "none", bel |-> TRUE, func |-> func,
          stored |-> stored]
    ELSE [cl |-> [r.cl EXCEPT !.last_command = func],
          ret |-> r.ret, halt |-> "none", bel |-> FALSE, func |-> func,
          stored |-> stored]

\* the part of handle_character after the FSM has answered f; a loop that
\* stored more than BufSize bytes has written behind buf
AfterFeed(s, keys, f, nd) ==
    IF f.len > BufSize
    THEN [cl |-> s, ret |-> 0, halt |-> "undefined", bel |-> FALSE,
          func |-> f.func, stored |-> f.len]
    ELSE IF f.retval = "FINAL"
    THEN AfterCommand(f.func, Call(f.func, s, nd), f.len)
    ELSE [cl |-> [insert_str(s, SubSeq(keys, 1, f.len))
                    EXCEPT !.last_command = "NULL"],
          ret |-> 0, halt |-> "none", bel |-> FALSE, func |-> "NULL",
          stored |-> f.len]

handle_character(s, keys, nd) == AfterFeed(s, keys, Dispatch[keys], nd)

----------------------------------------------------------------------------
(* ll_read *)

NoResult == [kind |-> "none", line |-> <<>>]

Init ==
    /\ cl \in {cl0(h) : h \in InitHistories}
    /\ pc = "host"
    /\ obs = [func |-> "NULL", bel |-> FALSE, nl |-> FALSE, raw |-> FALSE,
              stored |-> 0]
    /\ result = NoResult
    /\ nkeys = 0

\* ll_read that runs its first-call block on every call
ll_read_enter_reinit(s) ==
    LET a == [s EXCEPT !.initialized = TRUE,
                       !.last_command = "NULL",
                       !.buffer = <<>>,
                       !.clipboard = <<>>]
    IN  [a EXCEPT !.buffer = ll_buf_assign(a.buffer, <<>>),
                  !.fmt_len = 0,
                  !.current = AtBuffer,
                  !.focus = Len(a.history),
                  !.cursor = 0,
                  !.fmt_cursor = 0,
                  !.tty = NoLine]

\* ll_read before its loop: the first-call block and the reset of the editor
ll_read_enter(s) ==
    LET a == IF s.initialized THEN s
             ELSE [s EXCEPT !.initialized = TRUE,
                            !.last_command = "NULL",
                            !.buffer = <<>>,
                            !.clipboard = <<>>]
    IN  [a EXCEPT !.buffer = ll_buf_assign(a.buffer, <<>>),
                  !.fmt_len = 0,
                  !.current = AtBuffer,
                  !.focus = Len(a.history),
                  !.cursor = 0,
                  !.fmt_cursor = 0,
                  !.tty = NoLine]

\* ll_read up to its first keyboard_get: first-call initialisation, the
\* reset of the editor, the prompt and the first reprint_line
LlRead ==
    /\ pc = "host"
    /\ cl' = reprint_line(ll_read_enter(cl))
    /\ pc' = "reading"
    /\ obs' = [func |-> "NULL", bel |-> FALSE, nl |-> FALSE, raw |-> TRUE,
               stored |-> 0]
    /\ result' = NoResult
    /\ UNCHANGED nkeys

\* the part of the loop of ll_read after handle_character has handed back h:
\* the next reprint_line, and the return of ll_read when h.ret is not 0
AfterHandle(h) ==
    /\ Len(h.cl.buffer) <= MaxLen
    /\ IF h.halt = "exit"
       THEN /\ cl' = h.cl
            /\ pc' = "exited"
            /\ obs' = [func |-> h.func, bel |-> FALSE, nl |-> TRUE,
                       raw |-> FALSE, stored |-> h.stored]
            /\ UNCHANGED result
       ELSE IF h.halt = "undefined"
       THEN /\ cl' = h.cl
            /\ pc' = "undefined"
            /\ obs' = [func |-> h.func, bel |-> FALSE, nl |-> FALSE,
                       raw |-> TRUE, stored |-> h.stored]
            /\ UNCHANGED result
       ELSE IF h.ret = 0
       THEN /\ cl' = reprint_line(h.cl)
            /\ pc' = "reading"
            /\ obs' = [func |-> h.func, bel |-> h.bel, nl |-> FALSE,
                       raw |-> TRUE, stored |-> h.stored]
            /\ UNCHANGED result
       ELSE /\ cl' = reprint_line(h.cl)
            /\ pc' = "host"
            /\ obs' = [func |-> h.func, bel |-> FALSE, nl |-> TRUE,
                       raw |-> TRUE, stored |-> h.stored]
            /\ result' = IF h.ret < 0
                         THEN [kind |-> "NULL", line |-> <<>>]
                         ELSE [kind |-> "line", line |-> CStr(h.cl.buffer)]

\* one turn of the loop of ll_read, from the keyboard_get that delivers
\* `keys` to the next keyboard_get, or to the return of ll_read
Turn(keys, nd) ==
    /\ pc = "reading"
    /\ nkeys < MaxKeys
    /\ AfterHandle(handle_character(cl, keys, nd))
    /\ nkeys' = nkeys + 1

\* the commands the installed table binds
Commands == {HostBindings[i].func : i \in DOMAIN HostBindings}

\* a key sequence bound to command f; every sequence bound to f that fits
\* into buf makes handle_character run f in the same way, so one stands
\* for all of them
KeyOf == [f \in Commands |-> CHOOSE k \in KeysOf(f) : TRUE]

Key(f) == Turn(KeyOf[f], NoChoice)

Literal == \E k \in KeysOf("NULL") : Turn(k, NoChoice)
BeginningOfLine == Key("ll_beginning_of_line")
EndOfLine == Key("ll_end_of_line")
BackwardChar == Key("ll_backward_char")
ForwardChar == Key("ll_forward_char")
BackwardWord == Key("ll_backward_word")
\* the byte behind the terminator is read only with the cursor on the
\* terminator
ForwardWord ==
    \E k \in {KeyOf["ll_forward_word"]},
       past \in IF cl.cursor + 1 > Len(Mem(cl)) THEN BOOLEAN ELSE {TRUE} :
        Turn(k, [NoChoice EXCEPT !.past = past])
PreviousHistory == Key("ll_previous_history")
NextHistory == Key("ll_next_history")
\* the index 0 is out of range only for an empty history
BeginningOfHistory ==
    \E k \in {KeyOf["ll_beginning_of_history"]},
       stray \in IF Len(cl.history) = 0 THEN StrayOutcomes
                 ELSE {NoChoice.stray} :
        Turn(k, [NoChoice EXCEPT !.stray = stray])
EndOfHistory == Key("ll_end_of_history")
EndOfFile == Key("ll_end_of_file")
DeleteChar == Key("ll_delete_char")
BackwardDeleteChar == Key("ll_backward_delete_char")
ForwardKillLine == Key("ll_forward_kill_line")
BackwardKillLine == Key("ll_backward_kill_line")
ForwardKillWord == Key("ll_forward_kill_word")
BackwardKillWord == Key("ll_backward_kill_word")
Yank == Key("ll_yank")
Verbatim ==
    \E k \in {KeyOf["ll_verbatim"]}, c \in VerbatimBytes :
        Turn(k, [NoChoice EXCEPT !.vb = c])
AcceptLine == Key("ll_accept_line")
Terminate == Key("ll_terminate")
\* a sequence of more bytes than buf holds, bound or one byte off a bound one
LongKey == \E k \in {j \in KeySeqs : Len(j) > BufSize} : Turn(k, NoChoice)

Next ==
    \/ LlRead
    \/ Literal
    \/ BeginningOfLine
    \/ EndOfLine
    \/ BackwardChar
    \/ ForwardChar
    \/ BackwardWord
    \/ ForwardWord
    \/ PreviousHistory
    \/ NextHistory
    \/ BeginningOfHistory
    \/ EndOfHistory
    \/ EndOfFile
    \/ DeleteChar
    \/ BackwardDeleteChar
    \/ ForwardKillLine
    \/ BackwardKillLine
    \/ ForwardKillWord
    \/ BackwardKillWord
    \/ Yank
    \/ Verbatim
    \/ AcceptLine
    \/ Terminate
    \/ LongKey

Spec == Init /\ [][Next]_vars

----------------------------------------------------------------------------
(* Vocabulary of the properties *)

\* the line on display, as the NUL-terminated string it is
Line(s) == CStr(Mem(s))

\* a step that is one turn of the read loop (a command or a literal insertion)
IsTurn == pc = "reading" /\ nkeys' = nkeys + 1

\* a turn that ran command f
Ran(f) == IsTurn /\ obs'.func = f

\* the bytes an editing command works on once pop_line has run
Popped(s) == IF s.current = AtBuffer THEN s.buffer ELSE Line(s)

\* b with the n bytes at offset i taken out
Without(b, i, n) == Slice(b, 0, i) \o Slice(b, i + n, Len(b) - i - n)

TypeOK ==
    /\ pc \in {"host", "reading", "exited", "undefined"}
    /\ nkeys \in 0..MaxKeys
    /\ pc = "undefined" \/ cl.cursor \in 0..Len(Mem(cl))
    /\ cl.focus \in 0..Len(cl.history)
    /\ Len(cl.history) <= MaxLines
    /\ result.kind \in {"none", "line"}

----------------------------------------------------------------------------
(* C1: within a read, after every command and every literal insertion,    *)
(* 0 <= cursor <= len(current), len being the length of the               *)
(* NUL-terminated line on display.                                         *)
C1_CursorWithinLine ==
    pc = "reading" => (0 <= cl.cursor /\ cl.cursor <= strlen(Mem(cl)))

(* C2: within a read, after every command (accept-line included) and for  *)
(* every history size, focus == history.size exactly when current aliases  *)
(* the buffer, and otherwise current aliases history[focus] with           *)
(* 0 <= focus < history.size.                                              *)
C2_ViewAgreesWithFocus ==
    (cl.initialized /\ pc \in {"reading", "host"}) =>
        /\ (cl.focus = Len(cl.history)) <=> (cl.current = AtBuffer)
        /\ cl.current # AtBuffer =>
              /\ cl.current = AtHistory(cl.focus)
              /\ 0 <= cl.focus /\ cl.focus < Len(cl.history)

(* C3: no turn of a read other than accept-line changes the history (its  *)
(* entries and its size), and a turn that changes the buffer leaves        *)
(* current on the buffer with focus == history.size: the viewed entry was  *)
(* popped and only the buffer was written.                                 *)
C3_EditingKeepsHistory ==
    [][(IsTurn /\ obs'.func # "ll_accept_line") =>
          /\ cl'.history = cl.history
          /\ cl'.buffer # cl.buffer =>
                /\ cl'.current = AtBuffer
                /\ cl'.focus = Len(cl'.history)]_vars

\* a history entry was viewed and then edited: the buffer holds the entry
\* less its last byte, and the entry is still in the history
C3_Witness ==
    /\ pc = "reading"
    /\ nkeys = 2
    /\ obs.func = "ll_backward_delete_char"
    /\ cl.current = AtBuffer
    /\ cl.buffer = <<97, 32, 97>>
    /\ cl.history = << <<97, 32, 97, 32>> >>

(* C4: within a read, after every command and every literal insertion,    *)
(* the byte at the cursor (if cursor < len(current)) is not a UTF-8        *)
(* continuation byte.                                                      *)
C4_CursorOnLeadByte ==
    pc = "reading" =>
        ~(cl.cursor >= 0 /\ cl.cursor < strlen(Mem(cl))
          /\ IsCont(Cur(cl, cl.cursor)))

(* C5: a forward-kill-word (backward-kill-word) that finds text to kill   *)
(* takes a span out of the line at (before) the cursor; the clipboard      *)
(* becomes the old clipboard with the span appended (prepended) when the   *)
(* previously executed command was the same kill-word, and exactly the     *)
(* span in every other case.                                               *)
C5_KillWordChaining ==
    [][/\ (Ran("ll_forward_kill_word") /\ Cur(cl, cl.cursor) # 0) =>
            LET line == Popped(cl)
                k == Len(line) - Len(cl'.buffer)
                span == Slice(line, cl.cursor, k)
            IN  /\ k >= 0
                /\ cl'.buffer = Without(line, cl.cursor, k)
                /\ cl'.cursor = cl.cursor
                /\ cl'.clipboard =
                      IF cl.last_command = "ll_forward_kill_word"
                      THEN cl.clipboard \o span ELSE span
       /\ (Ran("ll_backward_kill_word") /\ cl.cursor > 0) =>
            LET line == Popped(cl)
                k == Len(line) - Len(cl'.buffer)
                span == Slice(line, cl.cursor - k, k)
            IN  /\ k >= 0
                /\ cl'.buffer = Without(line, cl.cursor - k, k)
                /\ cl'.cursor = cl.cursor - k
                /\ cl'.clipboard =
                      IF cl.last_command = "ll_backward_kill_word"
                      THEN span \o cl.clipboard ELSE span]_vars

\* two backward-kill-word in a row on the viewed entry " a a": the second
\* span "a " went in front of the first span "a"
C5_Witness ==
    /\ pc = "reading"
    /\ nkeys = 3
    /\ obs.func = "ll_backward_kill_word"
    /\ cl.buffer = <<32>>
    /\ cl.clipboard = <<97, 32, 97>>

(* C6 as claimed: a forward-kill-line (backward-kill-line) that removes a  *)
(* non-empty span leaves exactly that span, [cursor, len) resp.            *)
(* [0, cursor), in the clipboard, whatever the previous command was.       *)
C6_LineKillReplaces ==
    [][/\ (Ran("ll_forward_kill_line") /\ Cur(cl, cl.cursor) # 0) =>
            cl'.clipboard =
                Slice(Popped(cl), cl.cursor, Len(Popped(cl)) - cl.cursor)
       /\ (Ran("ll_backward_kill_line") /\ cl.cursor > 0) =>
            cl'.clipboard = Slice(Popped(cl), 0, cl.cursor)]_vars

(* C6 amended: a line kill that removes a non-empty span takes            *)
(* [cursor, len) resp. [0, cursor) out of the line; the clipboard becomes  *)
(* exactly that span unless the previously executed command was the        *)
(* kill-word of the same direction, and then the span is appended          *)
(* (forward) resp. prepended (backward) to the old clipboard.              *)
C6_LineKillChains ==
    [][/\ (Ran("ll_forward_kill_line") /\ Cur(cl, cl.cursor) # 0) =>
            LET line == Popped(cl)
                span == Slice(line, cl.cursor, Len(line) - cl.cursor)
            IN  /\ cl'.buffer = Slice(line, 0, cl.cursor)
                /\ cl'.cursor = cl.cursor
                /\ cl'.clipboard =
                      IF cl.last_command = "ll_forward_kill_word"
                      THEN cl.clipboard \o span ELSE span
       /\ (Ran("ll_backward_kill_line") /\ cl.cursor > 0) =>
            LET line == Popped(cl)
                span == Slice(line, 0, cl.cursor)
            IN  /\ cl'.buffer = Slice(line, cl.cursor, Len(line) - cl.cursor)
                /\ cl'.cursor = 0
                /\ cl'.clipboard =
                      IF cl.last_command = "ll_backward_kill_word"
                      THEN span \o cl.clipboard ELSE span]_vars

\* backward-kill-word inside the viewed entry " a a" (cursor 3) and then
\* backward-kill-line: the clipboard holds " " in front of the word kill "a "
C6_Witness ==
    /\ pc = "reading"
    /\ nkeys = 4
    /\ obs.func = "ll_backward_kill_line"
    /\ cl.buffer = <<97>>
    /\ cl.cursor = 0
    /\ cl.clipboard = <<32, 97, 32>>

(* C7: whenever a command is refused (negative return: BEL), buffer,      *)
(* clipboard, cursor, focus, current and history are unchanged,            *)
(* last_command is the refused command, and the read loop goes on reading. *)
C7_RefusalChangesNothing ==
    [][(IsTurn /\ obs'.bel) =>
          /\ cl'.buffer = cl.buffer
          /\ cl'.clipboard = cl.clipboard
          /\ cl'.cursor = cl.cursor
          /\ cl'.focus = cl.focus
          /\ cl'.current = cl.current
          /\ cl'.history = cl.history
          /\ cl'.last_command = obs'.func
          /\ pc' = "reading"
          /\ result' = result]_vars

(* C8 as claimed: end-of-file looks at the edit buffer: with an empty     *)
(* buffer it terminates (newline, terminal restored, exit), with a         *)
(* non-empty buffer it does what delete-char does, also while a history    *)
(* entry is viewed.                                                        *)
C8_EofLooksAtBuffer ==
    [][Ran("ll_end_of_file") =>
          IF strlen(cl.buffer) = 0
          THEN pc' = "exited" /\ obs'.nl /\ ~obs'.raw
          ELSE pc' = "reading"]_vars

(* C8 amended: end-of-file looks at the line on display (current): when   *)
(* that line is empty it terminates (newline, terminal restored, exit, no  *)
(* state change); otherwise it does exactly what delete-char does on the   *)
(* same state, and the loop goes on.                                       *)
C8_EofLooksAtCurrent ==
    [][Ran("ll_end_of_file") =>
          IF strlen(Mem(cl)) = 0
          THEN /\ pc' = "exited" /\ obs'.nl /\ ~obs'.raw
               /\ cl' = cl
          ELSE /\ pc' = "reading"
               /\ obs'.bel = (ll_delete_char(cl).ret < 0)
               /\ cl'.buffer = ll_delete_char(cl).cl.buffer
               /\ cl'.cursor = ll_delete_char(cl).cl.cursor
               /\ cl'.current = ll_delete_char(cl).cl.current
               /\ cl'.focus = ll_delete_char(cl).cl.focus
               /\ cl'.clipboard = cl.clipboard
               /\ cl'.history = cl.history]_vars

\* end-of-file at the start of the viewed entry "a a " while the buffer was
\* empty: the entry was popped and its first byte deleted
C8_Witness ==
    /\ pc = "reading"
    /\ nkeys = 3
    /\ obs.func = "ll_end_of_file"
    /\ ~obs.bel
    /\ cl.current = AtBuffer
    /\ cl.buffer = <<32, 97, 32>>
    /\ cl.history = << <<97, 32, 97, 32>> >>

(* C9: previous-history and next-history never modify the buffer (nor the *)
(* history or the clipboard); a refused one leaves focus alone; a          *)
(* successful one moves focus by exactly one inside [0, history.size],     *)
(* shows the buffer when focus reaches history.size and history[focus]     *)
(* otherwise, and puts the cursor at the length of the line it shows.  So  *)
(* a run of navigation that ends at focus == history.size shows the text   *)
(* the buffer had when it began.                                           *)
C9_NavigationKeepsBuffer ==
    [][/\ (Ran("ll_previous_history") \/ Ran("ll_next_history")) =>
            /\ cl'.buffer = cl.buffer
            /\ cl'.history = cl.history
            /\ cl'.clipboard = cl.clipboard
            /\ pc' = "reading"
            /\ obs'.bel => cl'.focus = cl.focus
            /\ ~obs'.bel =>
                  /\ cl'.focus >= 0 /\ cl'.focus <= Len(cl.history)
                  /\ cl'.current = IF cl'.focus = Len(cl.history) THEN AtBuffer
                                   ELSE AtHistory(cl'.focus)
                  /\ cl'.cursor = strlen(Mem(cl'))
       /\ (Ran("ll_previous_history") /\ ~obs'.bel) => cl'.focus = cl.focus - 1
       /\ (Ran("ll_next_history") /\ ~obs'.bel) => cl'.focus = cl.focus + 1]_vars

\* typed "a", went up to the single entry and came back down: the buffer
\* is on display again with its text
C9_Witness ==
    /\ pc = "reading"
    /\ nkeys = 3
    /\ obs.func = "ll_next_history"
    /\ ~obs.bel
    /\ Len(cl.history) = 1
    /\ cl.focus = 1
    /\ cl.current = AtBuffer
    /\ cl.buffer = <<97>>
    /\ cl.cursor = 1

(* C10: ll_read returns only from a turn that ran a command with a        *)
(* positive return (accept-line); it returns a line, never the absent      *)
(* result; the line is the one on display when accept-line ran, also when  *)
(* a history entry was viewed; and on return the most recent history entry *)
(* equals the returned line (capacity >= 1).                               *)
C10_AcceptReturnsDisplayedLine ==
    [][(IsTurn /\ pc' = "host") =>
          /\ obs'.func = "ll_accept_line"
          /\ result'.kind = "line"
          /\ result'.line = Line(cl)
          /\ result'.line = CStr(cl'.buffer)
          /\ MaxLines >= 1 =>
                /\ Len(cl'.history) >= 1
                /\ cl'.history[Len(cl'.history)] = result'.line]_vars

\* accept-line on the viewed entry "a a " with an empty buffer
C10_Witness ==
    /\ pc = "host"
    /\ nkeys = 2
    /\ obs.func = "ll_accept_line"
    /\ result = [kind |-> "line", line |-> <<97, 32, 97, 32>>]
    /\ cl.buffer = <<97, 32, 97, 32>>

(* C11: every ll_read call, the first and the later ones, starts its loop  *)
(* with the buffer empty, current on the buffer, cursor = 0,               *)
(* fmt_cursor = 0, fmt_len = 0 and focus = history.size, and leaves the    *)
(* clipboard and the history as the host's last call left them.            *)
C11_ReadResetsEditor ==
    [][(pc = "host" /\ pc' = "reading") =>
          /\ cl'.buffer = <<>>
          /\ cl'.current = AtBuffer
          /\ cl'.cursor = 0
          /\ cl'.fmt_cursor = 0
          /\ cl'.fmt_len = 0
          /\ cl'.focus = Len(cl'.history)
          /\ cl'.clipboard = cl.clipboard
          /\ cl'.history = cl.history]_vars

\* "a" typed, killed with backward-kill-line and the empty line accepted in
\* one read; yanked into the empty buffer of the next read
C11_Witness ==
    /\ pc = "reading"
    /\ nkeys = 4
    /\ obs.func = "ll_yank"
    /\ cl.history = << <<>> >>
    /\ cl.buffer = <<97>>
    /\ cl.clipboard = <<97>>

(* C12: in every reachable state of a read with cursor > 0, backward-char  *)
(* followed immediately by forward-char succeeds twice, leaves the cursor  *)
(* at its original byte offset and leaves buffer, focus and clipboard      *)
(* unchanged, whatever bytes were typed into the line.                     *)
C12_CharMotionRoundTrip ==
    (pc = "reading" /\ cl.cursor > 0) =>
        LET b == ll_backward_char(cl)
            f == ll_forward_char(b.cl)
        IN  /\ b.halt = "none" /\ b.ret = 0
            /\ f.halt = "none" /\ f.ret = 0
            /\ f.cl.cursor = cl.cursor
            /\ f.cl.buffer = cl.buffer
            /\ f.cl.focus = cl.focus
            /\ f.cl.clipboard = cl.clipboard

\* a turn of the loop whose command left the line on display and the cursor
\* as they were: its reprint_line is the second in a row on the same state
RenderedAgain ==
    /\ IsTurn
    /\ pc' = "reading"
    /\ Mem(cl') = Mem(cl)
    /\ cl'.cursor = cl.cursor

(* C13 as claimed: a render that follows a render with no change of the    *)
(* line or the cursor in between writes zero bytes to the terminal.        *)
C13_SecondRenderSilent ==
    [][RenderedAgain => cl'.tty.out = 0]_vars

(* C13 amended: a render that follows a render with no change of the line  *)
(* or the cursor in between leaves the cells and the column of the         *)
(* terminal, fmt_cursor and fmt_len as they were, but it writes the line   *)
(* again: fmt_cursor backspaces, the bytes of the formatted line and       *)
(* fmt_len - fmt_cursor backspaces; it writes zero bytes only when the     *)
(* formatted line is empty.                                                *)
C13_SecondRenderRepaints ==
    [][RenderedAgain =>
          /\ cl'.tty.cells = cl.tty.cells
          /\ cl'.tty.col = cl.tty.col
          /\ cl'.tty.under = cl.tty.under
          /\ cl'.fmt_cursor = cl.fmt_cursor
          /\ cl'.fmt_len = cl.fmt_len
          /\ cl'.tty.out = cl.fmt_cursor
                            + NBytes(SubSeq(cl.tty.cells, 1, cl.fmt_len))
                            + (cl.fmt_len - cl.fmt_cursor)
          /\ (cl'.tty.out = 0) <=> (cl.fmt_len = 0)]_vars

\* "a" typed and then a refused forward-char at the end of the line: the
\* render that followed wrote a backspace and the "a" again
C13_Witness ==
    /\ pc = "reading"
    /\ nkeys = 2
    /\ obs.func = "ll_forward_char"
    /\ obs.bel
    /\ cl.buffer = <<97>>
    /\ cl.tty = [cells |-> << <<97>> >>, col |-> 1, under |-> FALSE, out |-> 2]

\* the display rule for the unit that starts with byte c: the bytes it
\* takes from the line and the columns it fills
UnitBytes(c) == IF c >= 192 /\ c <= 223 THEN 2
                ELSE IF c >= 224 /\ c <= 239 THEN 3
                ELSE IF c >= 240 /\ c <= 247 THEN 4
                ELSE IF c >= 248 /\ c <= 251 THEN 5
                ELSE 1

UnitCols(c) == IF c < 32 THEN 2
               ELSE IF c < 128 THEN 1
               ELSE IF c >= 192 /\ c <= 251 THEN 1
               ELSE 4

\* the units of the line from offset i on, each with its offset and its
\* columns, up to the end or to a multi-byte unit the line cuts short
RECURSIVE Units(_, _)
Units(line, i) ==
    IF i >= Len(line) \/ i + UnitBytes(line[i + 1]) > Len(line) THEN <<>>
    ELSE <<[off |-> i, cols |-> UnitCols(line[i + 1])]>>
         \o Units(line, i + UnitBytes(line[i + 1]))

\* the columns of the units that start before offset `before`
RECURSIVE ColsBefore(_, _)
ColsBefore(us, before) ==
    IF us = <<>> \/ Head(us).off >= before THEN 0
    ELSE Head(us).cols + ColsBefore(Tail(us), before)

\* a state a render has just left
Rendered == pc = "reading" \/ (pc = "host" /\ cl.initialized)

(* C14: after every render fmt_len is the number of columns of the line on *)
(* display (2 per control byte, 1 per ASCII byte and per complete          *)
(* multi-byte sequence, 4 per malformed lead byte, nothing from a          *)
(* truncated trailing sequence on), 0 <= fmt_cursor <= fmt_len, and        *)
(* fmt_cursor is the column at which the scan reached the offset `cursor`, *)
(* or fmt_len when it never reached it.                                    *)
C14_FmtMatchesRender ==
    Rendered =>
        LET us == Units(Line(cl), 0)
            total == ColsBefore(us, Len(Line(cl)) + 1)
        IN  /\ cl.fmt_len = total
            /\ 0 <= cl.fmt_cursor /\ cl.fmt_cursor <= cl.fmt_len
            /\ cl.fmt_cursor =
                  IF \E k \in DOMAIN us : us[k].off = cl.cursor
                  THEN ColsBefore(us, cl.cursor) ELSE total

\* ^A and a malformed 0xFF typed after verbatim, then backward-char: the
\* cursor is on the 0xFF at column 2 of 6
C14_Witness ==
    /\ pc = "reading"
    /\ nkeys = 3
    /\ cl.buffer = <<1, 255>>
    /\ cl.cursor = 1
    /\ cl.fmt_cursor = 2
    /\ cl.fmt_len = 6

\* the commands that change the text of the line
EditCommands ==
    {"ll_delete_char", "ll_backward_delete_char", "ll_end_of_file",
     "ll_forward_kill_line", "ll_backward_kill_line",
     "ll_forward_kill_word", "ll_backward_kill_word",
     "ll_yank", "ll_verbatim"}

\* a turn that ran a text-changing command or a literal insertion while a
\* history entry was on display, was not refused and went on reading
EditedView ==
    /\ IsTurn
    /\ pc' = "reading"
    /\ ~obs'.bel
    /\ cl.focus < Len(cl.history)
    /\ cl.current = AtHistory(cl.focus)
    /\ obs'.func \in EditCommands \cup {"NULL"}

\* the context with a copy of the viewed entry in the buffer
OnCopy(s) ==
    [s EXCEPT !.buffer = Line(s), !.current = AtBuffer,
              !.focus = Len(s.history)]

\* the buffer and the cursor of cl' are what the edit of this turn makes of
\* the copy of the viewed entry, at the cursor of cl
EditOfCopy ==
    \E k \in KeysOf(obs'.func), c \in VerbatimBytes :
        LET h == handle_character(OnCopy(cl), k, [NoChoice EXCEPT !.vb = c])
        IN  /\ h.cl.buffer = cl'.buffer
            /\ h.cl.cursor = cl'.cursor
            /\ h.cl.clipboard = cl'.clipboard

\* command f finds something to edit in context s: it passes the test at
\* its head (text under or before the cursor, a clipboard to yank)
HasWork(f, s) ==
    CASE f \in {"ll_delete_char", "ll_end_of_file", "ll_forward_kill_line",
                "ll_forward_kill_word"} -> Cur(s, s.cursor) # 0
      [] f \in {"ll_backward_delete_char", "ll_backward_kill_line",
                "ll_backward_kill_word"} -> s.cursor # 0
      [] f = "ll_yank" -> Len(s.clipboard) # 0
      [] OTHER -> TRUE

(* C15 as claimed: whenever a text-changing command or a literal insertion *)
(* is executed (not refused) while a history entry is viewed, the buffer   *)
(* becomes the                                                             *)
(* edit applied to a copy of history[focus] at the cursor, focus becomes   *)
(* history.size and current aliases the buffer.                            *)
C15_EditPopsView ==
    [][EditedView =>
          /\ cl'.current = AtBuffer
          /\ cl'.focus = Len(cl'.history)
          /\ EditOfCopy]_vars

(* C15 amended: a text-changing command or literal insertion executed      *)
(* while a history entry is viewed pops only when it finds something to    *)
(* edit: then the buffer becomes the edit applied to a copy of             *)
(* history[focus] at the cursor, focus becomes history.size, current       *)
(* aliases the buffer and the text the buffer held is lost.  A command     *)
(* that stops at its boundary test (nothing under or before the cursor,    *)
(* empty clipboard) leaves buffer, focus and current as they were: the     *)
(* entry stays on display and the in-progress text stays in the buffer.    *)
C15_MutationPopsView ==
    [][EditedView =>
          /\ cl'.history = cl.history
          /\ IF HasWork(obs'.func, cl)
             THEN /\ cl'.current = AtBuffer
                  /\ cl'.focus = Len(cl'.history)
                  /\ EditOfCopy
             ELSE /\ cl'.buffer = cl.buffer
                  /\ cl'.focus = cl.focus
                  /\ cl'.current = cl.current]_vars

\* history ["\xE2\x82\xAC", " a a"]: a key, previous-history twice and
\* backward-delete-char: the buffer is the first entry less its codepoint,
\* the terminal shows four blanks where " a a" was
C15_Witness ==
    /\ pc = "reading"
    /\ nkeys = 4
    /\ obs.func = "ll_backward_delete_char"
    /\ ~obs.bel
    /\ Len(cl.history) = 2
    /\ cl.focus = 2
    /\ cl.current = AtBuffer
    /\ cl.buffer = <<>>
    /\ cl.tty.cells = <<<<32>>, <<32>>, <<32>>, <<32>>>>

C17_WindowBounded == obs.stored <= BufSize

(* C18: forward-word with the cursor at c < len(current) succeeds and      *)
(* leaves the cursor behind the maximal run of non-alphanumeric bytes that *)
(* starts at c and the maximal run of alphanumeric bytes that follows it;  *)
(* forward-word refuses only with the cursor at the end of the line.       *)
C18_ForwardWordResult ==
    [][(Ran("ll_forward_word") /\ cl.cursor <= strlen(Mem(cl))) =>
          LET m == Mem(cl)
              len == strlen(m)
          IN  /\ cl.cursor < len =>
                    /\ ~obs'.bel
                    /\ cl'.cursor =
                          FwdWhile(m, FwdWhile(m, cl.cursor, FALSE), TRUE)
              /\ obs'.bel => cl.cursor = len]_vars

(* C19: delete-char executed with cursor < len(current) succeeds, leaves   *)
(* the cursor where it is and takes k bytes out of the line at the cursor, *)
(* 1 <= k <= 5 and k <= len - cursor, whatever byte that is not a          *)
(* continuation byte stands at the cursor (malformed lead bytes and        *)
(* truncated sequences included).                                          *)
C19_DeleteCharRemovesOne ==
    [][(/\ Ran("ll_delete_char")
        /\ cl.cursor < strlen(Mem(cl))
        /\ ~IsCont(Cur(cl, cl.cursor))) =>
          LET line == Popped(cl)
              k == Len(line) - Len(cl'.buffer)
          IN  /\ ~obs'.bel
              /\ pc' = "reading"
              /\ cl'.cursor = cl.cursor
              /\ 1 <= k /\ k <= 5
              /\ k <= strlen(Mem(cl)) - cl.cursor
              /\ cl'.buffer = Without(line, cl.cursor, k)]_vars

\* what the terminal shows for the unit of `line` at offset off
Glyph(line, off) ==
    LET c == line[off + 1]
    IN  IF c < 32 THEN << <<94>>, <<c + 64>> >>
        ELSE IF c < 128 THEN << <<c>> >>
        ELSE IF c >= 192 /\ c <= 251
        THEN << Slice(line, off, UnitBytes(c)) >>
        ELSE << <<92>>, <<120>>, <<HexHi(c)>>, <<HexLo(c)>> >>

\* the formatted text of the units us of `line`, one codepoint or escape
\* character per column
RECURSIVE Formatted(_, _)
Formatted(line, us) ==
    IF us = <<>> THEN <<>>
    ELSE Glyph(line, Head(us).off) \o Formatted(line, Tail(us))

(* C20: with the terminal taken as a row of cells and a column (a          *)
(* backspace moves one column left, every other codepoint or escape        *)
(* character written fills a cell and moves one column right), after every *)
(* render the column equals fmt_cursor, no backspace was sent at column 0  *)
(* of the editable region, the cells [0, fmt_len) hold the formatted text  *)
(* of current, and every cell from fmt_len on that an earlier render of    *)
(* this read painted is blank.                                             *)
C20_TerminalReconciled ==
    Rendered =>
        /\ cl.tty.col = cl.fmt_cursor
        /\ ~cl.tty.under
        /\ Len(cl.tty.cells) >= cl.fmt_len
        /\ SubSeq(cl.tty.cells, 1, cl.fmt_len)
             = Formatted(Line(cl), Units(Line(cl), 0))
        /\ \A k \in (cl.fmt_len + 1)..Len(cl.tty.cells) :
               cl.tty.cells[k] = <<32>>

\* history ["\xE2\x82\xAC", " a a"], previous-history twice: the one
\* column of the first entry is followed by three blanks over " a a"
C20_Witness ==
    /\ pc = "reading"
    /\ nkeys = 2
    /\ obs.func = "ll_previous_history"
    /\ cl.focus = 0
    /\ cl.fmt_len = 1
    /\ cl.tty.cells = << <<226, 130, 172>>, <<32>>, <<32>>, <<32>> >>
    /\ cl.tty.col = 1

====
